---- MODULE Spec2Model ----
(***************************************************************************)
(* Model of app/api/rss/route.ts: the GET handler of /api/rss, the two     *)
(* unstable_cache wrappers (fetchWithJinaCache, generateRSSFromContent),   *)
(* the candidate-model fallback loop, getContentHash and sanitizeXML.      *)
(*                                                                         *)
(* Strings are sequences of one-character strings, so that the regular     *)
(* expressions of the source can be evaluated character by character.      *)
(***************************************************************************)
EXTENDS Integers, Sequences, FiniteSets, TLC

(* ------------------------------ bounds -------------------------------- *)

\* Number of GET requests that are issued in one behaviour.
MaxReqs == 2

\* Number of pieces an input string of sanitizeXML is assembled from.
MaxPieces == 5

\* Number of cache entries that are stale (past revalidate, not yet
\* recomputed) at one time.
MaxStale == 1

(* --------------------------- string helpers --------------------------- *)

\* String.prototype.includes
Includes(s, sub) ==
    \E i \in 1..(Len(s) - Len(sub) + 1) : SubSeq(s, i, i + Len(sub) - 1) = sub

\* s starts with sub at position i
StartsAt(s, i, sub) ==
    /\ i + Len(sub) - 1 <= Len(s)
    /\ SubSeq(s, i, i + Len(sub) - 1) = sub

\* String.prototype.replace(/sub/g, rep) for a literal pattern: leftmost,
\* non-overlapping occurrences, left to right.
RECURSIVE ReplaceAll(_, _, _)
ReplaceAll(s, sub, rep) ==
    IF Len(s) = 0 THEN << >>
    ELSE IF StartsAt(s, 1, sub)
         THEN rep \o ReplaceAll(SubSeq(s, Len(sub) + 1, Len(s)), sub, rep)
         ELSE <<s[1]>> \o ReplaceAll(Tail(s), sub, rep)

\* White space removed by String.prototype.trim (the part that occurs here).
WhiteSpace ==
    {" ", "\n", "\t"}

RECURSIVE TrimLeft(_)
TrimLeft(s) ==
    IF Len(s) > 0 /\ s[1] \in WhiteSpace THEN TrimLeft(Tail(s)) ELSE s

RECURSIVE TrimRight(_)
TrimRight(s) ==
    IF Len(s) > 0 /\ s[Len(s)] \in WhiteSpace
    THEN TrimRight(SubSeq(s, 1, Len(s) - 1))
    ELSE s

\* String.prototype.trim
Trim(s) ==
    TrimRight(TrimLeft(s))

RECURSIVE Flatten(_)
Flatten(ss) ==
    IF Len(ss) = 0 THEN << >> ELSE Head(ss) \o Flatten(Tail(ss))

(* ----------------------------- sanitizeXML ---------------------------- *)

Amp ==
    <<"&">>

AmpEntity ==
    <<"&", "a", "m", "p", ";">>

\* The named alternatives of the lookahead (amp|lt|gt|quot|apos).
NamedEntities ==
    { <<"a", "m", "p">>, <<"l", "t">>, <<"g", "t">>,
      <<"q", "u", "o", "t">>, <<"a", "p", "o", "s">> }

\* \d
Digits ==
    {"0", "1", "2", "3", "4", "5", "6", "7", "8", "9"}

\* [\da-fA-F]
HexDigits ==
    Digits \cup {"a", "b", "c", "d", "e", "f", "A", "B", "C", "D", "E", "F"}

\* Length of the longest run of characters of set cs that starts at position i.
RECURSIVE RunLen(_, _, _)
RunLen(s, i, cs) ==
    IF i <= Len(s) /\ s[i] \in cs THEN 1 + RunLen(s, i + 1, cs) ELSE 0

\* cs+; at position i (a greedy run of cs followed by a semicolon; a shorter
\* run cannot match, since the character after it is in cs and not ';').
RunThenSemi(s, i, cs) ==
    LET n == RunLen(s, i, cs)
    IN  n >= 1 /\ i + n <= Len(s) /\ s[i + n] = ";"

\* The lookahead (amp|lt|gt|quot|apos|#\d+|#x[\da-fA-F]+); at position i.
EntityBodyAt(s, i) ==
    \/ \E e \in NamedEntities : StartsAt(s, i, e \o <<";">>)
    \/ StartsAt(s, i, <<"#">>) /\ RunThenSemi(s, i + 1, Digits)
    \/ StartsAt(s, i, <<"#", "x">>) /\ RunThenSemi(s, i + 2, HexDigits)

\* Faulty variant of NeedsEscape: the negative lookahead is dropped, every '&' is
\* escaped.
NeedsEscapeNoLookahead(s, i) ==
    s[i] = "&"

\* /&(?!(amp|lt|gt|quot|apos|#\d+|#x[\da-fA-F]+);)/ matches at position i.
NeedsEscape(s, i) ==
    s[i] = "&" /\ ~EntityBodyAt(s, i + 1)

\* content.replace(/&(?!...;)/g, "&amp;")
RECURSIVE EscapeAmpFrom(_, _)
EscapeAmpFrom(s, i) ==
    IF i > Len(s) THEN << >>
    ELSE (IF NeedsEscape(s, i) THEN AmpEntity ELSE <<s[i]>>)
         \o EscapeAmpFrom(s, i + 1)

\* The early return of the replace callback.
SkipSpan(content) ==
    Trim(content) = << >> \/ Includes(content, AmpEntity)

\* Faulty variant of SpanCallback: every ampersand of the span is escaped, with no
\* early return and no lookahead.
SpanCallbackNaive(content) ==
    <<">">> \o ReplaceAll(content, Amp, AmpEntity) \o <<"<">>

\* The callback of xml.replace(/>([^<>]+)</g, ...), given the captured group.
SpanCallback(content) ==
    IF SkipSpan(content)
    THEN <<">">> \o content \o <<"<">>
    ELSE <<">">> \o EscapeAmpFrom(content, 1) \o <<"<">>

\* [^<>]
NotAngle(s) ==
    {s[j] : j \in 1..Len(s)} \ {"<", ">"}

\* Length n of the captured group when />([^<>]+)</ matches at position i,
\* 0 when it does not.
SpanAt(s, i) ==
    IF s[i] # ">" THEN 0
    ELSE LET n == RunLen(s, i + 1, NotAngle(s))
         IN  IF n >= 1 /\ i + n + 1 <= Len(s) /\ s[i + n + 1] = "<"
             THEN n ELSE 0

\* xml.replace(/>([^<>]+)</g, callback): the scan resumes after each match.
RECURSIVE ReplaceSpansFrom(_, _)
ReplaceSpansFrom(s, i) ==
    IF i > Len(s) THEN << >>
    ELSE LET n == SpanAt(s, i)
         IN  IF n > 0
             THEN SpanCallback(SubSeq(s, i + 1, i + n))
                  \o ReplaceSpansFrom(s, i + n + 2)
             ELSE <<s[i]>> \o ReplaceSpansFrom(s, i + 1)

sanitizeXML(xml) ==
    ReplaceSpansFrom(xml, 1)

(* ------------------------ configuration and inputs --------------------- *)

\* const models = ["gpt-4o-mini", "gpt-4o", "gpt-3.5-turbo"]
models ==
    <<"gpt-4o-mini", "gpt-4o", "gpt-3.5-turbo">>

\* Request identifiers, in order of arrival.
Reqs ==
    1..MaxReqs

\* Target URLs that clients ask for.
Urls ==
    { <<"u">>, <<"u", ":", "v">> }

\* Page contents the extraction service (Jina Reader) can return.
Contents ==
    { <<"c">>, <<"v", ":", "c">> }

\* searchParams.get(url): null (present = FALSE), the empty string, or a URL.
Params ==
    { [present |-> FALSE, value |-> << >>], [present |-> TRUE, value |-> << >>] }
    \cup { [present |-> TRUE, value |-> u] : u \in Urls }

RssOpen ==
    <<"<", "r", "s", "s", ">">>

RssClose ==
    <<"<", "/", "r", "s", "s", ">">>

ChannelOpen ==
    <<"<", "c", "h", "a", "n", "n", "e", "l", ">">>

ChannelClose ==
    <<"<", "/", "c", "h", "a", "n", "n", "e", "l", ">">>

\* The backquote character (the lexer admits none inside a string).
BQ ==
    "backquote"

\* The code fence: three backquotes.
Fence ==
    <<BQ, BQ, BQ>>

\* The code fence followed by xml.
FenceXml ==
    Fence \o <<"x", "m", "l">>

\* Texts the completion service can return in response.choices[0].message.content
\* (the empty text also stands for a response without content).
\*   TextFenced : FenceXml, newline, <rss><channel>A</channel></rss>, newline, Fence
\*   TextRawAmp : <rss><channel>A&B</channel></rss>
\*   TextNoChan : <rss>A</rss>
TextFenced ==
    FenceXml \o <<"\n">> \o RssOpen \o ChannelOpen \o <<"A">>
    \o ChannelClose \o RssClose \o <<"\n">> \o Fence

TextRawAmp ==
    RssOpen \o ChannelOpen \o <<"A", "&", "B">> \o ChannelClose \o RssClose

TextNoChan ==
    RssOpen \o <<"A">> \o RssClose

ModelTexts ==
    { TextFenced, TextRawAmp, TextNoChan, << >> }

\* error.status of a failed completion call; "undefined" is an error that
\* carries no status (a network error).
ErrorStatuses ==
    { "429", "503", "401", "undefined" }

(* ------------------------------- state -------------------------------- *)

VARIABLES
    pc,            \* per request: idle, fetching, fetched, generating, done
    targetUrl,     \* per request: searchParams.get(url)
    pageContent,   \* per request: the content returned by fetchWithJinaCache
    jinaFast,      \* per request: jinaFetchTime < 100
    lastError,     \* per request: lastError of the candidate loop
    response,      \* per request: the Response returned by GET
    contentCache,  \* unstable_cache store of fetchWithJinaCache
    genCache,      \* unstable_cache store of generateRSSFromContent
    latency,       \* environment: how long cache lookups and outbound calls take
    jinaCalls,     \* history: calls of fetchWithJina made for the request
    jinaResult,    \* history: how the call of fetchWithJina ended
    lastOutcome,   \* history: how the latest completion call ended
    invoked,       \* history: model ids passed to completions.create
    expired,       \* history: a cache entry has expired
    afterAll,      \* history: every earlier request was answered on arrival
    stages,        \* history: the stages the request has run, in order
    sanPc,         \* sanitizer harness: position
    sanIn,         \* sanitizer harness: input string
    sanOut,        \* sanitizer harness: sanitizeXML(sanIn)
    sanTwice       \* sanitizer harness: sanitizeXML(sanOut)

reqVars ==
    <<pc, targetUrl, pageContent, jinaFast, lastError, response>>

cacheVars ==
    <<contentCache, genCache>>

histVars ==
    <<jinaCalls, jinaResult, lastOutcome, invoked, expired, afterAll, stages>>

sanVars ==
    <<sanPc, sanIn, sanOut, sanTwice>>

vars ==
    <<reqVars, cacheVars, latency, histVars, sanVars>>

NoParam ==
    [present |-> FALSE, value |-> << >>]

NoResponse ==
    [status |-> 0, body |-> << >>, modelUsed |-> "", rssCacheStatus |-> "",
     jinaCacheStatus |-> "", contentHash |-> << >>, error |-> "",
     message |-> "", errStatus |-> ""]

\* Latency regimes of a deployment, relative to the 100 ms threshold of GET:
\*   fast    : cache lookups and outbound calls all take less than 100 ms
\*   typical : cache lookups take less, outbound calls take 100 ms or more
\*   slow    : cache lookups and outbound calls all take 100 ms or more
Latencies ==
    {"fast", "typical", "slow"}

\* Date.now() - startTime < 100 around a cache lookup that hits.
LookupUnder100 ==
    latency \in {"fast", "typical"}

\* Date.now() - startTime < 100 around a lookup that misses and calls out.
CallUnder100 ==
    latency = "fast"

(* --------------------------- pure functions --------------------------- *)

\* createHash(sha256).update(s).digest(hex), idealised as an injective
\* function of its input: the digest is the input under a "sha256" tag.
sha256hex(s) ==
    <<"sha256">> \o s

\* getContentHash: the digest of `${url}:${content}`.
getContentHash(url, content) ==
    sha256hex(url \o <<":">> \o content)

\* String.prototype.slice(0, n)
Slice0(s, n) ==
    SubSeq(s, 1, IF Len(s) < n THEN Len(s) ELSE n)

\* xml.replace(/FenceXml/g, "").replace(/Fence/g, "").trim()
StripFences(text) ==
    Trim(ReplaceAll(ReplaceAll(text, FenceXml, << >>), Fence, << >>))

\* The xml of one candidate: fences stripped, then sanitized.
CandidateXml(text) ==
    sanitizeXML(StripFences(text))

\* Faulty variant of ValidRss: the channel element is not looked for.
ValidRssNoChannel(xml) ==
    Includes(xml, <<"<", "r", "s", "s">>)

\* !(!xml.includes("<rss") || !xml.includes("<channel>"))
ValidRss(xml) ==
    Includes(xml, <<"<", "r", "s", "s">>) /\ Includes(xml, ChannelOpen)

\* Faulty variant of IsTransient: every failed call is treated as retryable.
IsTransientAlways(status) ==
    TRUE

\* Faulty variant of IsTransient: only 503 is treated as retryable.
IsTransientOnly503(status) ==
    status = "503"

\* statusCode === 429 || statusCode === 503
IsTransient(status) ==
    status = "429" \/ status = "503"

\* Faulty variant of MissingUrl: only the empty string is rejected, null is not.
MissingUrlEmptyOnly(p) ==
    p.present /\ p.value = << >>

\* !targetUrl
MissingUrl(p) ==
    ~p.present \/ p.value = << >>

\* The cache key of an unstable_cache wrapper: the key parts and the
\* serialised arguments of the call.
GenKey(url, content, hash) ==
    <<"rss-generation", url, content, hash>>

ContentKey(url) ==
    <<"jina-fetch", url>>

\* Cache lookups: the set of entries under a key (empty or a singleton). An
\* entry is fresh until revalidate seconds have passed, then stale; a stale
\* entry that was served is being recomputed in the background.
CacheGet(cache, key) ==
    {e \in cache : e.key = key}

\* Faulty variant of CacheSet: the result of the wrapped function is not stored.
CacheSetNoop(cache, key, value) ==
    cache

\* A cache write replaces the whole entry under the key.
CacheSet(cache, key, value) ==
    {e \in cache : e.key # key}
    \cup {[key |-> key, value |-> value, age |-> "fresh"]}

\* A lookup that finds entry e returns its value; when e is stale, the
\* wrapper also starts its callback in the background to recompute it.
CacheServe(cache, e) ==
    IF e.age = "stale"
    THEN (cache \ {e}) \cup {[e EXCEPT !.age = "revalidating"]}
    ELSE cache

\* The entry e with another age.
CacheAge(cache, e, age) ==
    (cache \ {e}) \cup {[e EXCEPT !.age = age]}

(* ------------------------------ responses ----------------------------- *)

\* duration < 100 ? HIT : MISS
TimingStatus(fast) ==
    IF fast THEN "HIT" ELSE "MISS"

\* new Response(usage message, { status: 400 })
Response400 ==
    [NoResponse EXCEPT !.status = 400, !.message = "Missing url parameter"]

\* Faulty variant of Response502: a failed extraction is answered with status 500.
Response502AsServerError ==
    [NoResponse EXCEPT !.status = 500,
                       !.error = "Failed to fetch webpage content",
                       !.message = "Jina Reader failed"]

\* new Response(JSON {error, message, url}, { status: 502 })
Response502 ==
    [NoResponse EXCEPT !.status = 502,
                       !.error = "Failed to fetch webpage content",
                       !.message = "Jina Reader failed"]

\* error.message of what generateRSSFromContent throws.
ErrorMessage(err) ==
    CASE err = "null"    -> "All models failed"
      [] err = "invalid" -> "Generated content is not valid RSS"
      [] OTHER           -> "completion request failed"

\* error.status || "unknown"
ErrorStatusField(err) ==
    IF err \in {"429", "503", "401"} THEN err ELSE "unknown"

\* new Response(JSON {error, message, status}, { status: 500 })
Response500(err) ==
    [NoResponse EXCEPT !.status = 500,
                       !.error = "Failed to generate feed",
                       !.message = ErrorMessage(err),
                       !.errStatus = ErrorStatusField(err)]

\* new Response(result.xml, { headers }) with the default status 200.
Response200(result, rssFast, jinaFetchFast, contentHash) ==
    [NoResponse EXCEPT !.status = 200,
                       !.body = result.xml,
                       !.modelUsed = result.modelUsed,
                       !.rssCacheStatus = TimingStatus(rssFast),
                       !.jinaCacheStatus = TimingStatus(jinaFetchFast),
                       !.contentHash = Slice0(contentHash, 16)]

(* -------------------------------- Init -------------------------------- *)

ReqInit ==
    /\ pc = [r \in Reqs |-> "idle"]
    /\ targetUrl = [r \in Reqs |-> NoParam]
    /\ pageContent = [r \in Reqs |-> << >>]
    /\ jinaFast = [r \in Reqs |-> FALSE]
    /\ lastError = [r \in Reqs |-> "null"]
    /\ response = [r \in Reqs |-> NoResponse]
    /\ contentCache = {}
    /\ genCache = {}
    /\ jinaCalls = [r \in Reqs |-> 0]
    /\ jinaResult = [r \in Reqs |-> "none"]
    /\ lastOutcome = [r \in Reqs |-> "none"]
    /\ invoked = [r \in Reqs |-> << >>]
    /\ expired = FALSE
    /\ afterAll = [r \in Reqs |-> TRUE]
    /\ stages = [r \in Reqs |-> << >>]

Init ==
    /\ ReqInit
    /\ latency \in Latencies
    /\ sanPc = "off"
    /\ sanIn = << >>
    /\ sanOut = << >>
    /\ sanTwice = << >>

(* ------------------------------- GET ---------------------------------- *)

\* Request r arrives with query parameter p (requests are numbered in the
\* order they arrive).
Arrive(r, p) ==
    /\ pc[r] = "idle"
    /\ IF r = 1 THEN TRUE ELSE pc[r - 1] # "idle"
    /\ targetUrl' = [targetUrl EXCEPT ![r] = p]
    /\ afterAll' = [afterAll EXCEPT ![r] = \A q \in 1..(r - 1) : pc[q] = "done"]

\* Request r is answered with resp.
Respond(r, resp) ==
    /\ pc' = [pc EXCEPT ![r] = "done"]
    /\ response' = [response EXCEPT ![r] = resp]

\* Request r has run the stages ss (a sequence), in that order.
Ran(r, ss) ==
    stages' = [stages EXCEPT ![r] = @ \o ss]

\* GET without a usable url parameter: the 400 response.
GetMissingUrl(r) ==
    \E p \in Params :
        /\ MissingUrl(p)
        /\ Arrive(r, p)
        /\ Respond(r, Response400)
        /\ Ran(r, <<"respond">>)
        /\ UNCHANGED <<pageContent, jinaFast, lastError, cacheVars, latency,
                       jinaCalls, jinaResult, lastOutcome, invoked,
                       expired, sanVars>>

\* GET with a url whose content is cached: fetchWithJinaCache returns the
\* cached content without waiting for fetchWithJina.
GetContentHit(r) ==
    \E p \in Params :
        /\ ~MissingUrl(p)
        /\ Arrive(r, p)
        /\ \E e \in CacheGet(contentCache, ContentKey(p.value)) :
               /\ pageContent' = [pageContent EXCEPT ![r] = e.value]
               /\ contentCache' = CacheServe(contentCache, e)
        /\ jinaFast' = [jinaFast EXCEPT ![r] = LookupUnder100]
        /\ pc' = [pc EXCEPT ![r] = "fetched"]
        /\ Ran(r, <<"fetch">>)
        /\ UNCHANGED <<lastError, response, genCache, latency, jinaCalls,
                       jinaResult, lastOutcome, invoked, expired, sanVars>>

\* GET with a url whose content is not cached: fetchWithJinaCache calls
\* fetchWithJina, which awaits the extraction service.
GetContentMiss(r) ==
    \E p \in Params :
        /\ ~MissingUrl(p)
        /\ Arrive(r, p)
        /\ CacheGet(contentCache, ContentKey(p.value)) = {}
        /\ jinaCalls' = [jinaCalls EXCEPT ![r] = @ + 1]
        /\ pc' = [pc EXCEPT ![r] = "fetching"]
        /\ UNCHANGED <<pageContent, jinaFast, lastError, response, cacheVars,
                       latency, jinaResult, lastOutcome, invoked,
                       expired, stages, sanVars>>

\* The extraction service answers with response.ok: the content is cached
\* under the url and returned.
JinaOk(r) ==
    \E c \in Contents :
        /\ pc[r] = "fetching"
        /\ contentCache' = CacheSet(contentCache, ContentKey(targetUrl[r].value), c)
        /\ pageContent' = [pageContent EXCEPT ![r] = c]
        /\ jinaFast' = [jinaFast EXCEPT ![r] = CallUnder100]
        /\ pc' = [pc EXCEPT ![r] = "fetched"]
        /\ jinaResult' = [jinaResult EXCEPT ![r] = "ok"]
        /\ Ran(r, <<"fetch">>)
        /\ UNCHANGED <<targetUrl, lastError, response, genCache, latency,
                       jinaCalls, lastOutcome, invoked, expired, afterAll,
                       sanVars>>

\* Faulty variant of JinaFail: the failure is cached as an empty content.
JinaFailCached(r) ==
    /\ pc[r] = "fetching"
    /\ Respond(r, Response502)
    /\ jinaResult' = [jinaResult EXCEPT ![r] = "failed"]
    /\ Ran(r, <<"respond">>)
    /\ contentCache' = CacheSet(contentCache, ContentKey(targetUrl[r].value), << >>)
    /\ UNCHANGED <<targetUrl, pageContent, jinaFast, lastError, genCache,
                   latency, jinaCalls, lastOutcome, invoked, expired,
                   afterAll, sanVars>>

\* The extraction service answers with !response.ok, or the call fails:
\* fetchWithJina throws, nothing is cached, GET answers 502.
JinaFail(r) ==
    /\ pc[r] = "fetching"
    /\ Respond(r, Response502)
    /\ jinaResult' = [jinaResult EXCEPT ![r] = "failed"]
    /\ Ran(r, <<"respond">>)
    /\ UNCHANGED <<targetUrl, pageContent, jinaFast, lastError, cacheVars,
                   latency, jinaCalls, lastOutcome, invoked, expired,
                   afterAll, sanVars>>

\* const contentHash = getContentHash(targetUrl, pageContent)
ReqHash(r) ==
    getContentHash(targetUrl[r].value, pageContent[r])

\* The key generateRSSFromContent is called under by request r.
ReqKey(r) ==
    GenKey(targetUrl[r].value, pageContent[r], ReqHash(r))

\* generateRSSFromContent finds a cached result: GET answers 200 with it.
GenerateHit(r) ==
    /\ pc[r] = "fetched"
    /\ \E e \in CacheGet(genCache, ReqKey(r)) :
           /\ Respond(r, Response200(e.value, LookupUnder100, jinaFast[r], ReqHash(r)))
           /\ genCache' = CacheServe(genCache, e)
    /\ Ran(r, <<"fingerprint", "generate", "respond">>)
    /\ UNCHANGED <<targetUrl, pageContent, jinaFast, lastError, contentCache,
                   latency, jinaCalls, jinaResult, lastOutcome, invoked,
                   expired, afterAll, sanVars>>

\* generateRSSFromContent finds no cached result: the loop starts and the
\* first candidate is invoked.
GenerateMiss(r) ==
    /\ pc[r] = "fetched"
    /\ CacheGet(genCache, ReqKey(r)) = {}
    /\ lastError' = [lastError EXCEPT ![r] = "null"]
    /\ invoked' = [invoked EXCEPT ![r] = <<models[1]>>]
    /\ pc' = [pc EXCEPT ![r] = "generating"]
    /\ Ran(r, <<"fingerprint">>)
    /\ UNCHANGED <<targetUrl, pageContent, jinaFast, response, cacheVars,
                   latency, jinaCalls, jinaResult, lastOutcome, expired,
                   afterAll, sanVars>>

\* Faulty variant of CandidateStages: the text is validated first and
\* sanitized afterwards.
CandidateStagesValidateFirst ==
    <<"validate", "sanitize">>

\* What the loop does with the text a candidate returned: xml =
\* sanitizeXML(xml), then the check of the RSS structure.
CandidateStages ==
    <<"sanitize", "validate">>

\* throw lastError || new Error("All models failed"), caught by GET: 500.
\* (An iteration left by continue or break ran sanitizeXML and the
\* validation exactly when it ended with the validation error.)
ThrowLastError(r, err) ==
    /\ Respond(r, Response500(err))
    /\ Ran(r, (IF err = "invalid" THEN CandidateStages ELSE << >>) \o <<"respond">>)
    /\ UNCHANGED invoked

\* continue: the next candidate is invoked; after the last one the loop ends
\* and lastError is thrown.
ContinueLoop(r, err) ==
    IF Len(invoked[r]) < Len(models)
    THEN /\ invoked' = [invoked EXCEPT ![r] = Append(@, models[Len(@) + 1])]
         /\ UNCHANGED <<pc, response, stages>>
    ELSE ThrowLastError(r, err)

\* Faulty variant of CurrentModel: the first model of the list is reported whatever
\* candidate answered.
CurrentModelFirst(r) ==
    models[1]

\* modelId: the candidate of the current iteration of the loop.
CurrentModel(r) ==
    models[Len(invoked[r])]

\* The xml each text of the completion service leads to.
CandidateXmlOf ==
    [t \in ModelTexts |-> CandidateXml(t)]

\* The current candidate returns a text that passes validation: the result
\* is cached and GET answers 200 with it.
CompletionValid(r) ==
    \E text \in ModelTexts :
        LET xml == CandidateXmlOf[text]
            result == [xml |-> xml, modelUsed |-> CurrentModel(r)]
        IN  /\ pc[r] = "generating"
            /\ ValidRss(xml)
            /\ genCache' = CacheSet(genCache, ReqKey(r), result)
            /\ Respond(r, Response200(result, CallUnder100, jinaFast[r], ReqHash(r)))
            /\ lastOutcome' = [lastOutcome EXCEPT ![r] = "ok"]
            /\ Ran(r, CandidateStages \o <<"generate", "respond">>)
            /\ UNCHANGED <<targetUrl, pageContent, jinaFast, lastError,
                           contentCache, latency, jinaCalls, jinaResult,
                           invoked, expired, afterAll, sanVars>>

\* Faulty variant of CompletionInvalid: a failed validation ends the loop.
CompletionInvalidAborts(r) ==
    \E text \in ModelTexts :
        /\ pc[r] = "generating"
        /\ ~ValidRss(CandidateXmlOf[text])
        /\ lastError' = [lastError EXCEPT ![r] = "invalid"]
        /\ ThrowLastError(r, "invalid")
        /\ lastOutcome' = [lastOutcome EXCEPT ![r] = "invalid"]
        /\ UNCHANGED <<targetUrl, pageContent, jinaFast, cacheVars, latency,
                       jinaCalls, jinaResult, expired, afterAll, sanVars>>

\* The current candidate returns a text that fails validation.
CompletionInvalid(r) ==
    \E text \in ModelTexts :
        /\ pc[r] = "generating"
        /\ ~ValidRss(CandidateXmlOf[text])
        /\ lastError' = [lastError EXCEPT ![r] = "invalid"]
        /\ ContinueLoop(r, "invalid")
        /\ lastOutcome' = [lastOutcome EXCEPT ![r] = "invalid"]
        /\ UNCHANGED <<targetUrl, pageContent, jinaFast, cacheVars, latency,
                       jinaCalls, jinaResult, expired, afterAll, sanVars>>

\* The call of the current candidate throws an error with status s.
CompletionError(r) ==
    \E s \in ErrorStatuses :
        /\ pc[r] = "generating"
        /\ lastError' = [lastError EXCEPT ![r] = s]
        /\ IF IsTransient(s) THEN ContinueLoop(r, s) ELSE ThrowLastError(r, s)
        /\ lastOutcome' = [lastOutcome EXCEPT ![r] = s]
        /\ UNCHANGED <<targetUrl, pageContent, jinaFast, cacheVars, latency,
                       jinaCalls, jinaResult, expired, afterAll, sanVars>>

(* ---------------------------- cache expiry ---------------------------- *)

\* An entry of the content cache is gone: evicted, or past revalidate: 3600
\* in a store that drops what has expired.
ExpireContent ==
    \E e \in contentCache :
        /\ contentCache' = contentCache \ {e}
        /\ expired' = TRUE
        /\ UNCHANGED <<reqVars, genCache, latency, jinaCalls, jinaResult,
                       lastOutcome, invoked, afterAll, stages, sanVars>>

\* An entry of the generation cache is gone: evicted, or past revalidate:
\* 604800 in a store that drops what has expired.
ExpireGen ==
    \E e \in genCache :
        /\ genCache' = genCache \ {e}
        /\ expired' = TRUE
        /\ UNCHANGED <<reqVars, contentCache, latency, jinaCalls, jinaResult,
                       lastOutcome, invoked, afterAll, stages, sanVars>>

\* The number of entries that are past revalidate and not yet recomputed.
StaleCount ==
    Cardinality({e \in contentCache : e.age # "fresh"})
    + Cardinality({e \in genCache : e.age # "fresh"})

\* revalidate: 3600 elapses for an entry the store keeps: it is stale.
StaleContent ==
    \E e \in contentCache :
        /\ e.age = "fresh"
        /\ StaleCount < MaxStale
        /\ contentCache' = CacheAge(contentCache, e, "stale")
        /\ expired' = TRUE
        /\ UNCHANGED <<reqVars, genCache, latency, jinaCalls, jinaResult,
                       lastOutcome, invoked, afterAll, stages, sanVars>>

\* revalidate: 604800 elapses for an entry the store keeps: it is stale.
StaleGen ==
    \E e \in genCache :
        /\ e.age = "fresh"
        /\ StaleCount < MaxStale
        /\ genCache' = CacheAge(genCache, e, "stale")
        /\ expired' = TRUE
        /\ UNCHANGED <<reqVars, contentCache, latency, jinaCalls, jinaResult,
                       lastOutcome, invoked, afterAll, stages, sanVars>>

\* The background call of fetchWithJina for a stale entry that was served
\* returns: its content replaces the entry.
RevalidateContentOk ==
    \E e \in contentCache, c \in Contents :
        /\ e.age = "revalidating"
        /\ contentCache' = CacheSet(contentCache, e.key, c)
        /\ UNCHANGED <<reqVars, genCache, latency, histVars, sanVars>>

\* The background call of fetchWithJina throws: the error is logged and the
\* entry stays stale.
RevalidateContentFail ==
    \E e \in contentCache :
        /\ e.age = "revalidating"
        /\ contentCache' = CacheAge(contentCache, e, "stale")
        /\ UNCHANGED <<reqVars, genCache, latency, histVars, sanVars>>

\* The background run of the candidate loop for a stale entry that was
\* served returns the validated xml of one of the candidates: it replaces
\* the entry.
RevalidateGenOk ==
    \E e \in genCache, text \in ModelTexts, m \in 1..Len(models) :
        /\ e.age = "revalidating"
        /\ ValidRss(CandidateXmlOf[text])
        /\ genCache' = CacheSet(genCache, e.key,
                                [xml |-> CandidateXmlOf[text], modelUsed |-> models[m]])
        /\ UNCHANGED <<reqVars, contentCache, latency, histVars, sanVars>>

\* The background run of the candidate loop throws: the error is logged and
\* the entry stays stale.
RevalidateGenFail ==
    \E e \in genCache :
        /\ e.age = "revalidating"
        /\ genCache' = CacheAge(genCache, e, "stale")
        /\ UNCHANGED <<reqVars, contentCache, latency, histVars, sanVars>>

Next ==
    \/ \E r \in Reqs : GetMissingUrl(r)
    \/ \E r \in Reqs : GetContentHit(r)
    \/ \E r \in Reqs : GetContentMiss(r)
    \/ \E r \in Reqs : JinaOk(r)
    \/ \E r \in Reqs : JinaFail(r)
    \/ \E r \in Reqs : GenerateHit(r)
    \/ \E r \in Reqs : GenerateMiss(r)
    \/ \E r \in Reqs : CompletionValid(r)
    \/ \E r \in Reqs : CompletionInvalid(r)
    \/ \E r \in Reqs : CompletionError(r)
    \/ ExpireContent
    \/ ExpireGen
    \/ StaleContent
    \/ StaleGen
    \/ RevalidateContentOk
    \/ RevalidateContentFail
    \/ RevalidateGenOk
    \/ RevalidateGenFail

Spec ==
    Init /\ [][Next]_vars

(* ------------------------- sanitizeXML harness ------------------------ *)

\* Pieces the inputs of sanitizeXML are assembled from: the angle brackets, a
\* raw ampersand, the tails of the entities &amp; &lt; and &#1;, a letter and
\* a blank.
Pieces ==
    { <<">">>, <<"<">>, <<"&">>, <<"a", "m", "p", ";">>, <<"l", "t", ";">>,
      <<"#", "1", ";">>, <<"a">>, <<" ">> }

\* Every concatenation of at most MaxPieces pieces.
SanInputs ==
    { Flatten(ps) : ps \in UNION { [1..n -> Pieces] : n \in 0..MaxPieces } }

SanInit ==
    /\ ReqInit
    /\ latency = "typical"
    /\ sanPc = "input"
    /\ sanIn \in SanInputs
    /\ sanOut = << >>
    /\ sanTwice = << >>

\* xml = sanitizeXML(xml)
SanApply ==
    /\ sanPc = "input"
    /\ sanOut' = sanitizeXML(sanIn)
    /\ sanPc' = "once"
    /\ UNCHANGED <<reqVars, cacheVars, latency, histVars, sanIn, sanTwice>>

\* sanitizeXML applied to its own output.
SanApplyAgain ==
    /\ sanPc = "once"
    /\ sanTwice' = sanitizeXML(sanOut)
    /\ sanPc' = "twice"
    /\ UNCHANGED <<reqVars, cacheVars, latency, histVars, sanIn, sanOut>>

SanNext ==
    \/ SanApply
    \/ SanApplyAgain

SanSpec ==
    SanInit /\ [][SanNext]_vars

(* --------------------- properties of sanitizeXML ---------------------- *)

\* Position i of s lies in a text-node span: between a '>' and the next '<',
\* with neither angle bracket in between.
InTextSpan(s, i) ==
    \E a \in 1..(i - 1), b \in (i + 1)..Len(s) :
        /\ s[a] = ">"
        /\ s[b] = "<"
        /\ \A k \in (a + 1)..(b - 1) : s[k] \notin {"<", ">"}

\* The '&' at position i of s starts a recognized entity: &amp; &lt; &gt;
\* &quot; &apos; or a numeric character reference.
RecognizedEntityAt(s, i) ==
    \E j \in (i + 2)..Len(s) :
        LET name == SubSeq(s, i + 1, j - 1)
        IN  /\ s[j] = ";"
            /\ \/ name \in NamedEntities
               \/ /\ name[1] = "#"
                  /\ Len(name) >= 2
                  /\ \A k \in 2..Len(name) : name[k] \in Digits
               \/ /\ Len(name) >= 3
                  /\ name[1] = "#"
                  /\ name[2] = "x"
                  /\ \A k \in 3..Len(name) : name[k] \in HexDigits

\* The raw ampersands of s that lie in a text-node span.
RawAmpsInSpans(s) ==
    { i \in 1..Len(s) : s[i] = "&" /\ ~RecognizedEntityAt(s, i) /\ InTextSpan(s, i) }

\* s with the ampersands at the positions of set ps replaced by &amp;
RECURSIVE EscapedAt(_, _, _)
EscapedAt(s, ps, i) ==
    IF i > Len(s) THEN << >>
    ELSE (IF i \in ps THEN AmpEntity ELSE <<s[i]>>) \o EscapedAt(s, ps, i + 1)

\* C8: sanitizeXML is idempotent: sanitizing the sanitized string changes
\* nothing.
C8_SanitizeIdempotent ==
    sanPc = "twice" => sanTwice = sanOut

\* Witness of C8: a second application to an output that differs from the
\* input.
C8_Witness ==
    sanPc = "twice" /\ sanOut # sanIn

\* C9: in the output of sanitizeXML no text-node span holds an ampersand
\* that is not the start of a recognized entity.
C9_NoRawAmpInSpans ==
    sanPc # "input" => RawAmpsInSpans(sanOut) = {}

\* C10: the output of sanitizeXML is its input with some of the raw
\* ampersands of text-node spans replaced by &amp; and nothing else changed
\* (angle brackets, tags and recognized entities are as in the input).
C10_OnlyRawAmpsInSpansChange ==
    sanPc # "input" =>
        \E ps \in SUBSET RawAmpsInSpans(sanIn) : sanOut = EscapedAt(sanIn, ps, 1)

\* Witness of C10: an input whose text-node span holds a recognized entity
\* and a raw ampersand, and whose output differs from it.
C10_Witness ==
    /\ sanPc = "once"
    /\ sanOut # sanIn
    /\ \E i \in 1..Len(sanIn) :
           sanIn[i] = "&" /\ RecognizedEntityAt(sanIn, i) /\ InTextSpan(sanIn, i)

(* ----------------------- properties of the pipeline -------------------- *)

\* Failures after which the loop goes on to the next candidate.
SoftFailures ==
    {"429", "503", "invalid"}

\* Statuses of failed calls that are neither 429 nor 503.
NonTransient ==
    ErrorStatuses \ {"429", "503"}

Answered(r, status) ==
    pc[r] = "done" /\ response[r].status = status

\* C1: candidates are invoked in list order, a further candidate only after
\* the one before failed with 429, 503 or an invalid response; the model
\* reported with a generated feed is the last candidate invoked, its response
\* passed validation, and no candidate is invoked after it.
C1_FallbackOrdering ==
    [][\A r \in Reqs :
        /\ invoked'[r] # invoked[r] =>
              /\ invoked'[r] = SubSeq(models, 1, Len(invoked[r]) + 1)
              /\ invoked[r] # << >> =>
                    /\ lastOutcome'[r] \in SoftFailures
                    /\ pc[r] = "generating" /\ pc'[r] = "generating"
        /\ (pc[r] # "done" /\ pc'[r] = "done" /\ response'[r].status = 200
                /\ invoked'[r] # << >>) =>
              /\ lastOutcome'[r] = "ok"
              /\ response'[r].modelUsed = invoked'[r][Len(invoked'[r])]
              /\ ValidRss(response'[r].body)
        /\ pc[r] = "done" => invoked'[r] = invoked[r]
      ]_vars

\* Witness of C1: the first candidate was rate-limited, the second one won
\* and the third was not invoked.
C1_Witness ==
    \E r \in Reqs :
        /\ Answered(r, 200)
        /\ lastError[r] = "429"
        /\ invoked[r] = <<"gpt-4o-mini", "gpt-4o">>
        /\ response[r].modelUsed = "gpt-4o"

\* C2: a completion call that fails with a status other than 429 and 503
\* ends the loop: the request is answered 500 with that error and no further
\* candidate is invoked, then or later.
C2_NonRetryableShortCircuit ==
    [][\A r \in Reqs :
        /\ (pc[r] = "generating" /\ lastOutcome'[r] \in NonTransient) =>
              /\ pc'[r] = "done"
              /\ response'[r].status = 500
              /\ response'[r].error = "Failed to generate feed"
              /\ lastOutcome'[r] = "401" => response'[r].errStatus = "401"
              /\ invoked'[r] = invoked[r]
        /\ pc[r] = "done" => invoked'[r] = invoked[r] /\ response'[r] = response[r]
      ]_vars

\* Witness of C2: the first candidate failed with 401, the request was
\* answered 500 and the second candidate was not invoked.
C2_Witness ==
    \E r \in Reqs :
        /\ Answered(r, 500)
        /\ lastOutcome[r] = "401"
        /\ response[r].errStatus = "401"
        /\ invoked[r] = <<"gpt-4o-mini">>

\* C3: while no cache entry has expired, any two 200 responses for the same
\* url and content carry the same XML.
C3_SameContentSameXml ==
    ~expired =>
        \A r1, r2 \in Reqs :
            (/\ Answered(r1, 200) /\ Answered(r2, 200)
             /\ targetUrl[r1] = targetUrl[r2]
             /\ pageContent[r1] = pageContent[r2])
            => response[r1].body = response[r2].body

\* C4: at most one generation is in flight for one fingerprint.
C4_AtMostOneGenerationInFlight ==
    \A r1, r2 \in Reqs :
        (/\ r1 # r2
         /\ pc[r1] = "generating" /\ pc[r2] = "generating")
        => ReqHash(r1) # ReqHash(r2)

C6_MissingParameter ==
    [][\A r \in Reqs :
        (pc[r] = "idle" /\ pc'[r] # "idle" /\ ~targetUrl'[r].present) =>
            /\ pc'[r] = "done"
            /\ response'[r].status = 400
            /\ jinaCalls'[r] = 0
            /\ invoked'[r] = << >>
            /\ contentCache' = contentCache
            /\ genCache' = genCache
      ]_vars

\* Witness of C6: a request without url was answered 400 while the caches
\* held entries.
C6_Witness ==
    \E r \in Reqs :
        /\ Answered(r, 400)
        /\ ~targetUrl[r].present
        /\ contentCache # {} /\ genCache # {}

\* C7: a request with a url gets one response, in the step that ends it:
\* 502 exactly when the extraction call failed; 500 exactly when extraction
\* succeeded and the latest completion call failed; 200 exactly when
\* extraction succeeded and generation did (from the cache, or by a completion
\* call that passed validation), with the XML held for its url and content.
C7_OutcomeToStatus ==
    [][\A r \in Reqs :
        /\ (pc[r] # "done" /\ pc'[r] = "done" /\ targetUrl'[r].value # << >>) =>
              /\ response'[r].status \in {200, 500, 502}
              /\ response'[r].status = 502 <=> jinaResult'[r] = "failed"
              /\ response'[r].status = 500 <=>
                    /\ jinaResult'[r] # "failed"
                    /\ lastOutcome'[r] \notin {"none", "ok"}
              /\ response'[r].status = 200 =>
                    \E e \in genCache' :
                        /\ e.key[2] = targetUrl'[r].value
                        /\ e.key[3] = pageContent'[r]
                        /\ e.value.xml = response'[r].body
        /\ pc[r] # "done" => response[r] = NoResponse
        /\ pc[r] = "done" => pc'[r] = "done" /\ response'[r] = response[r]
      ]_vars

\* Witness of C7: one request answered 502 and another answered 500.
C7_Witness ==
    \E r1, r2 \in Reqs : Answered(r1, 502) /\ Answered(r2, 500)

(* ------------------ properties of the later sections ------------------ *)

\* Request r has computed its fingerprint.
Fingerprinted(r) ==
    \E i \in 1..Len(stages[r]) : stages[r][i] = "fingerprint"

\* A step of request r inside the candidate loop: a completion call ended.
CallEnded(r) ==
    /\ pc[r] = "generating"
    /\ invoked'[r] # invoked[r] \/ pc'[r] = "done"

\* C11: two requests whose (url, content) pairs differ have different
\* fingerprints (the digest being injective on the string it is given).
C11_DistinctPairsDistinctFingerprints ==
    \A r1, r2 \in Reqs :
        (/\ Fingerprinted(r1) /\ Fingerprinted(r2)
         /\ <<targetUrl[r1].value, pageContent[r1]>>
                # <<targetUrl[r2].value, pageContent[r2]>>)
        => ReqHash(r1) # ReqHash(r2)

\* C12: a completion whose text fails validation does not end the loop: the
\* next candidate of the list is invoked and the request stays unanswered;
\* only after the last candidate the request is answered 500, with the
\* validation error. A 500 response that carries the validation error is
\* given only when every candidate was invoked.
C12_ValidationIsSoftFailure ==
    [][\A r \in Reqs :
        /\ (CallEnded(r) /\ lastOutcome'[r] = "invalid") =>
              IF Len(invoked[r]) < Len(models)
              THEN /\ pc'[r] = "generating"
                   /\ response'[r] = NoResponse
                   /\ invoked'[r] = Append(invoked[r], models[Len(invoked[r]) + 1])
              ELSE /\ pc'[r] = "done"
                   /\ response'[r].status = 500
                   /\ response'[r].message = "Generated content is not valid RSS"
        /\ (pc'[r] = "done"
              /\ response'[r].message = "Generated content is not valid RSS") =>
              invoked'[r] = models
      ]_vars

\* Witness of C12: the first candidate returned a text that failed
\* validation and the second one won.
C12_Witness ==
    \E r \in Reqs :
        /\ Answered(r, 200)
        /\ lastError[r] = "invalid"
        /\ invoked[r] = <<"gpt-4o-mini", "gpt-4o">>
        /\ response[r].modelUsed = "gpt-4o"

\* Stage a comes before stage b in what request r has run.
Before(r, a, b) ==
    \E i, j \in 1..Len(stages[r]) :
        i < j /\ stages[r][i] = a /\ stages[r][j] = b

\* The xml values that sanitizeXML leaves as they are.
SanitizedXmls ==
    { x \in { CandidateXmlOf[t] : t \in ModelTexts } : sanitizeXML(x) = x }

C14_ExpiredNeverServed ==
    [][\A r \in Reqs :
        /\ (pc[r] = "idle" /\ pc'[r] = "fetched") =>
              \E e \in CacheGet(contentCache, ContentKey(targetUrl'[r].value)) :
                  e.age = "fresh" /\ e.value = pageContent'[r]
        /\ (pc[r] = "fetched" /\ pc'[r] = "done") =>
              \E e \in CacheGet(genCache, ReqKey(r)) :
                  e.age = "fresh" /\ e.value.xml = response'[r].body
        /\ (pc[r] = "fetching" /\ pc'[r] = "fetched") =>
              [key |-> ContentKey(targetUrl[r].value), value |-> pageContent'[r],
               age |-> "fresh"] \in contentCache'
        /\ (pc[r] = "generating" /\ pc'[r] = "done" /\ response'[r].status = 200) =>
              \E e \in CacheGet(genCache', ReqKey(r)) :
                  e.age = "fresh" /\ e.value.xml = response'[r].body
      ]_vars

\* C15: in a 200 response the generation-cache indicator is HIT exactly when
\* the request made no completion call, and the content-cache indicator is
\* HIT exactly when it made no extraction call.
C15_IndicatorsAccurate ==
    \A r \in Reqs :
        Answered(r, 200) =>
            /\ response[r].rssCacheStatus = "HIT" <=> invoked[r] = << >>
            /\ response[r].jinaCacheStatus = "HIT" <=> jinaCalls[r] = 0

\* C16: a 500 response carries the status 429 or 503 only when every
\* candidate of the list was invoked, the last of them failing with that
\* status.
C16_TransientSurfacedOnlyWhenExhausted ==
    \A r \in Reqs :
        (Answered(r, 500) /\ response[r].errStatus \in {"429", "503"}) =>
            /\ invoked[r] = models
            /\ lastOutcome[r] = response[r].errStatus

\* Witness of C16: the first candidate was rate-limited, the second returned
\* an invalid text, the third was unavailable, and the request was answered
\* 500 with status 503.
C16_Witness ==
    \E r \in Reqs :
        /\ Answered(r, 500)
        /\ response[r].errStatus = "503"
        /\ invoked[r] = models

\* The steps GET takes on its own, without an answer of a service: the
\* lookup in the generation cache after the content has arrived.
HandlerStep(r) ==
    GenerateHit(r) \/ GenerateMiss(r)

\* The behaviours in which GET goes on whenever it can; no answer of the
\* extraction or completion service is guaranteed.
LiveSpec ==
    Init /\ [][Next]_vars /\ \A r \in Reqs : WF_vars(HandlerStep(r))

\* C17: a request that waits for the extraction or the completion service
\* is eventually answered.
C17_AwaitingCallEventuallyAnswered ==
    \A r \in Reqs :
        (pc[r] \in {"fetching", "generating"}) ~> (pc[r] = "done")

\* C18: a request that ends with 502 or 500 changes neither cache, a
\* completion call that fails or returns an invalid text leaves the
\* generation cache as it is, a fresh entry is only written by a call that
\* succeeded (for a request or in the background), and a request that finds
\* no entry calls the service again, the loop starting at the first
\* candidate.
C18_FailuresNotCached ==
    [][/\ \A r \in Reqs :
            /\ (pc[r] # "done" /\ pc'[r] = "done"
                  /\ response'[r].status \in {500, 502}) =>
                  /\ contentCache' = contentCache
                  /\ genCache' = genCache
            /\ (CallEnded(r) /\ lastOutcome'[r] # "ok") => genCache' = genCache
            /\ (pc[r] = "fetched" /\ pc'[r] = "generating") =>
                  invoked'[r] = <<models[1]>>
            /\ (pc[r] = "idle" /\ pc'[r] = "fetching") =>
                  jinaCalls'[r] = 1
       /\ \A e \in contentCache' \ contentCache :
            e.age = "fresh" =>
                \/ \E r \in Reqs :
                       /\ pc[r] = "fetching" /\ jinaResult'[r] = "ok"
                       /\ e.key = ContentKey(targetUrl[r].value)
                \/ \E old \in contentCache :
                       old.key = e.key /\ old.age = "revalidating"
       /\ \A e \in genCache' \ genCache :
            e.age = "fresh" =>
                \/ \E r \in Reqs :
                       /\ pc[r] = "generating" /\ pc'[r] = "done"
                       /\ lastOutcome'[r] = "ok"
                       /\ e.key = ReqKey(r)
                \/ \E old \in genCache :
                       old.key = e.key /\ old.age = "revalidating"
      ]_vars

\* Witness of C18: the first request was answered 500 after the loop had
\* failed; the second one, for the same url and content, arrived after that,
\* called the first candidate again and was answered with its feed.
C18_Witness ==
    /\ ~expired
    /\ Answered(1, 500)
    /\ Answered(2, 200) /\ afterAll[2]
    /\ targetUrl[2] = targetUrl[1] /\ pageContent[2] = pageContent[1]
    /\ invoked[2] = <<models[1]>>

\* The xml values that contain both <rss and <channel>.
StructuredXmls ==
    { x \in { CandidateXmlOf[t] : t \in ModelTexts } :
        /\ Includes(x, <<"<", "r", "s", "s">>)
        /\ Includes(x, <<"<", "c", "h", "a", "n", "n", "e", "l", ">">>) }

ModelIds ==
    { models[i] : i \in 1..Len(models) }

\* C19: every entry of the generation cache and every 200 body contains
\* <rss and <channel> and names a model of the list; a feed generated for a
\* request names the candidate whose call returned it and is stored under
\* the request's key, and a feed served from the cache is the stored one
\* with the model stored with it.
C19_OnlyValidatedStoredOrServed ==
    /\ [](/\ \A e \in genCache :
               e.value.xml \in StructuredXmls /\ e.value.modelUsed \in ModelIds
          /\ \A r \in Reqs :
               Answered(r, 200) =>
                   /\ response[r].body \in StructuredXmls
                   /\ response[r].modelUsed \in ModelIds)
    /\ [][\A r \in Reqs :
            /\ (pc[r] = "generating" /\ pc'[r] = "done"
                  /\ response'[r].status = 200) =>
                  /\ response'[r].modelUsed = invoked[r][Len(invoked[r])]
                  /\ \E e \in CacheGet(genCache', ReqKey(r)) :
                         e.value = [xml |-> response'[r].body,
                                    modelUsed |-> response'[r].modelUsed]
            /\ (pc[r] = "fetched" /\ pc'[r] = "done") =>
                  \E e \in CacheGet(genCache, ReqKey(r)) :
                      e.value = [xml |-> response'[r].body,
                                 modelUsed |-> response'[r].modelUsed]
         ]_vars

\* Witness of C19: the feed of the third candidate is in the cache and a
\* request was answered from the cache with it.
C19_Witness ==
    \E r \in Reqs :
        /\ Answered(r, 200) /\ invoked[r] = << >>
        /\ response[r].modelUsed = "gpt-3.5-turbo"
        /\ \E e \in genCache :
               e.key = ReqKey(r) /\ e.value.modelUsed = "gpt-3.5-turbo"

====
